---- MODULE Spec2Model ----
\* A model of the atch event emitter (src/src/index.ts): the registry `all`,
\* the operations on / once / off / emit, the removers that on and once
\* return, and the synchronous, re-entrant dispatch of emit.
\*
\* Handlers are user code.  While a handler runs it may call any operation of
\* the emitter (re-entrantly), return, or throw; the model lets it do any of
\* these.  The call stack of emit invocations is kept in `stack`.
EXTENDS Integers, Sequences, FiniteSets, TLC

\* ---------------------------------------------------------------- bounds
MaxOps == 3
MaxDepth == 2

\* ------------------------------------------------------------ input sets
WILDCARD == "*"
Keys == {"foo", "Foo", WILDCARD}
HandlerNames == {"h1", "h2"}
\* Every emit call passes a payload of its own (an object, as in the tests),
\* named after the number of the call.
Payload(n) == "p" \o ToString(n)
Undefined == "undefined"

\* A plain user function.
Fn(name) == [k |-> "fn", name |-> name, id |-> 0, type |-> "-"]
\* The closure `onceHandler` created by one call of once(type, handler):
\* `id` is the identity of the closure, `type` and `name` what it captured.
OnceHandler(id, type, name) == [k |-> "once", name |-> name, id |-> id, type |-> type]
\* The handler argument of off(type) when it is left out.
Omitted == [k |-> "undefined", name |-> "-", id |-> 0, type |-> "-"]
UserHandlers == {Fn(n) : n \in HandlerNames}
\* The handlers passed to once.
OnceHandlers == {Fn("h1")}
\* The keys passed to once, and to waitFor.
OnceKeys == {"foo", WILDCARD}
WaitKeys == {"foo"}

\* ------------------------------------------------------------ Map, Array
\* all.get(type): the list, or undefined; `Has` is the truthiness test
\* `if (handlers)`, `Get` the list once it is known to be there.
Has(reg, type) == type \in DOMAIN reg
\* Mutant of Get: the key is looked up in lower case.
GetFoldsCase(reg, type) ==
    LET key == IF type = "Foo" THEN "foo" ELSE type IN
    IF key \in DOMAIN reg THEN reg[key] ELSE <<>>

Get(reg, type) == IF Has(reg, type) THEN reg[type] ELSE <<>>
\* all.set(type, list)
MapSet(reg, type, list) == [k \in DOMAIN reg \cup {type} |-> IF k = type THEN list ELSE reg[k]]

\* A list entry: the handler function, and beside it the number of the on /
\* once call that pushed it (0 for an entry of an injected registry).  The
\* number is bookkeeping: the code compares and calls only `fn`.
Entry(h, id) == [fn |-> h, reg |-> id]
Fns(list) == [i \in 1..Len(list) |-> list[i].fn]

RECURSIVE IndexFrom(_, _, _)
IndexFrom(s, h, i) ==
    IF i > Len(s) THEN -1
    ELSE IF s[i].fn = h THEN i - 1
    ELSE IndexFrom(s, h, i + 1)

\* Mutant of IndexOf: Array.prototype.lastIndexOf.
IndexOfLast(s, h) ==
    LET at == {i \in 1..Len(s) : s[i].fn = h} IN
    IF at = {} THEN -1 ELSE (CHOOSE i \in at : \A j \in at : j <= i) - 1

\* Mutant of IndexOf: a once closure matches the handler it wraps.
IndexOfUnwrapped(s, h) ==
    LET at == {i \in 1..Len(s) :
                  \/ s[i].fn = h
                  \/ s[i].fn.k = "once" /\ h.k = "fn" /\ s[i].fn.name = h.name} IN
    IF at = {} THEN -1 ELSE (CHOOSE i \in at : \A j \in at : i <= j) - 1

\* Array.prototype.indexOf: the 0-based index of the first element identical
\* to h, or -1.
IndexOf(s, h) == IndexFrom(s, h, 1)

\* Mutant of ToUint32: the index is passed on as it is.
ToUint32Signed(x) == x

\* `x >>> 0`: a non-negative index is unchanged; -1 becomes 4294967295, which
\* is not less than the length of any array.  The checker's integers stop at
\* 2147483647, which stands for it here.
ToUint32(x) == IF x >= 0 THEN x ELSE 2147483647

\* Array.prototype.splice(start, 1): removes the element at the 0-based
\* index start if there is one; a negative start counts from the end of the
\* array (and not before its first element).
Splice1(s, start) ==
    LET from == IF start < 0
                THEN (IF Len(s) + start < 0 THEN 0 ELSE Len(s) + start)
                ELSE start
    IN IF from >= Len(s) THEN s
       ELSE SubSeq(s, 1, from) \o SubSeq(s, from + 2, Len(s))

\* Array.prototype.slice(): a copy that later changes of the registry do not
\* reach.
Slice(s) == [i \in 1..Len(s) |-> s[i]]

\* ------------------------------------------------------- pure operations
\* Mutant of On: a handler already in the list is not pushed again.
OnSkipsDuplicate(reg, type, h, id) ==
    IF Has(reg, type)
    THEN IF \E i \in 1..Len(reg[type]) : reg[type][i].fn = h
         THEN reg
         ELSE [reg EXCEPT ![type] = Append(@, Entry(h, id))]
    ELSE MapSet(reg, type, <<Entry(h, id)>>)

\* on(type, handler), lines 80-85: push onto the list, or set a new list.
\* `id` numbers the call.
On(reg, type, h, id) ==
    IF Has(reg, type)
    THEN [reg EXCEPT ![type] = Append(@, Entry(h, id))]
    ELSE MapSet(reg, type, <<Entry(h, id)>>)

\* Mutant of Off: off(type) without a handler removes nothing.
OffKeepsAll(reg, type, h) ==
    IF Has(reg, type) /\ h # Omitted
    THEN [reg EXCEPT ![type] = Splice1(@, ToUint32(IndexOf(@, h)))]
    ELSE reg

\* Mutant of Off: off(type) without a handler sets an empty list whether or
\* not the type had a list.
OffAlwaysSets(reg, type, h) ==
    IF h # Omitted
    THEN IF Has(reg, type)
         THEN [reg EXCEPT ![type] = Splice1(@, ToUint32(IndexOf(@, h)))]
         ELSE reg
    ELSE MapSet(reg, type, <<>>)

\* Mutant of Off: off(type) without a handler empties the list of every key.
OffClearsEveryType(reg, type, h) ==
    IF Has(reg, type)
    THEN IF h # Omitted
         THEN [reg EXCEPT ![type] = Splice1(@, ToUint32(IndexOf(@, h)))]
         ELSE [k \in DOMAIN reg |-> <<>>]
    ELSE reg

\* Mutant of Off: a list that becomes empty is deleted from the registry.
OffDeletesEmpty(reg, type, h) ==
    IF Has(reg, type)
    THEN IF h # Omitted
         THEN LET left == Splice1(reg[type], ToUint32(IndexOf(reg[type], h))) IN
              IF left = <<>>
              THEN [k \in DOMAIN reg \ {type} |-> reg[k]]
              ELSE [reg EXCEPT ![type] = left]
         ELSE MapSet(reg, type, <<>>)
    ELSE reg

\* off(type, handler?), lines 124-131.
Off(reg, type, h) ==
    IF Has(reg, type)
    THEN IF h # Omitted
         THEN [reg EXCEPT ![type] = Splice1(@, ToUint32(IndexOf(@, h)))]
         ELSE MapSet(reg, type, <<>>)
    ELSE reg

\* Mutant of OnceRemove: onceHandler does not remove itself.
OnceRemoveNothing(reg, w) == reg

\* What onceHandler does to the registry before it calls the handler, line 98.
OnceRemove(reg, w) == Off(reg, w.type, w)

\* Mutant of TypeArgs: the type list is called like the wildcard list.
TypeArgsWithType(type, evt) == <<type, evt>>

\* The arguments a handler of the type list receives, line 150: handler(evt).
TypeArgs(type, evt) == <<evt, Undefined>>

\* Mutant of WildArgs: the wildcard list is called like the type list.
WildArgsNoType(type, evt) == <<evt, Undefined>>

\* The arguments a handler of the wildcard list receives, line 159:
\* handler(type, evt).
WildArgs(type, evt) == <<type, evt>>

\* ------------------------------------------------------------------ state
VARIABLES
    all,        \* the registry: a Map from key to list of handlers
    stack,      \* the emit calls in progress, innermost last
    removers,   \* the removers returned by on and once so far
    nextId,     \* number of the next on/once call
    nops,       \* operations called so far
    lastOp,     \* the step just taken, with the list it found
    lastEmit,   \* the emit calls ended by the step just taken, if it was a return or a throw
    onceRuns,   \* per once closure, how often it called its handler
    promises    \* the promises returned by waitFor, by the number of the call

vars == <<all, stack, removers, nextId, nops, lastOp, lastEmit, onceRuns, promises>>

EmptyMap == [k \in {} |-> <<>>]
H1 == Fn("h1")
H2 == Fn("h2")
Seeded(h) == Entry(h, 0)

\* Registries injected at construction (line 64), as the tests do.
Seeds ==
    { EmptyMap,
      "foo" :> <<Seeded(H1), Seeded(H2)>>,
      ("foo" :> <<Seeded(H1)>>) @@ (WILDCARD :> <<Seeded(H2)>>) }

\* The record of a step that is not a call of an operation; `reg` is the
\* registry the step found.
Step(name) ==
    [op |-> name, type |-> "-", h |-> Omitted, evt |-> Undefined,
     had |-> FALSE, pre |-> <<>>, rid |-> 0, used |-> FALSE, reg |-> all]

\* The record of one operation: what was called and the list it found.
Op(name, type, h, evt, rid, used) ==
    [op |-> name, type |-> type, h |-> h, evt |-> evt,
     had |-> Has(all, type), pre |-> Get(all, type), rid |-> rid, used |-> used,
     reg |-> all]

\* No emit call has just ended.
NoEmit == [status |-> "none", frames |-> <<>>]

Init ==
    /\ all \in Seeds
    /\ stack = <<>>
    /\ removers = {}
    /\ nextId = 1
    /\ nops = 0
    /\ lastOp = Step("init")
    /\ lastEmit = NoEmit
    /\ onceRuns = [c \in {} |-> 0]
    /\ promises = [i \in {} |-> 0]

Top == stack[Len(stack)]
\* Code that may call the emitter is running: the program outside any emit,
\* or the body of the handler the innermost emit has invoked.
CanCall == IF stack = <<>> THEN TRUE ELSE Top.running
MayCall == CanCall /\ nops < MaxOps

\* ---------------------------------------------------------------- actions
\* on(type, handler), lines 79-87.
OnCall(type, h) ==
    /\ MayCall
    /\ all' = On(all, type, h, nextId)
    /\ removers' = removers \cup {[id |-> nextId, type |-> type, h |-> h, used |-> FALSE]}
    /\ nextId' = nextId + 1
    /\ nops' = nops + 1
    /\ lastOp' = Op("on", type, h, Undefined, nextId, FALSE)
    /\ lastEmit' = NoEmit
    /\ UNCHANGED <<stack, onceRuns, promises>>

\* once(type, handler), lines 96-102: on(type, onceHandler).
OnceCall(type, h) ==
    LET w == OnceHandler(nextId, type, h.name) IN
    /\ MayCall
    /\ all' = On(all, type, w, nextId)
    /\ removers' = removers \cup {[id |-> nextId, type |-> type, h |-> w, used |-> FALSE]}
    /\ onceRuns' = [c \in DOMAIN onceRuns \cup {w} |-> IF c = w THEN 0 ELSE onceRuns[c]]
    /\ nextId' = nextId + 1
    /\ nops' = nops + 1
    /\ lastOp' = Op("once", type, h, Undefined, nextId, FALSE)
    /\ lastEmit' = NoEmit
    /\ UNCHANGED <<stack, promises>>

\* The closure `(e) => resolve(e)` that waitFor passes to once, line 112, is
\* the handler named "resolve" of its once closure.
IsResolver(fn) == fn.k = "once" /\ fn.name = "resolve"

\* resolve(v), line 112: a promise is settled by the first call and keeps
\* that value.
Resolve(p, v) ==
    IF p.state = "pending" THEN [p EXCEPT !.state = "resolved", !.value = v] ELSE p

\* waitFor(type), lines 110-114: once(type, (e) => resolve(e)); the promise
\* is returned, the remover of once is dropped.  `first` will hold the payload
\* of the first emit(type, ...) called after this call.
WaitForCall(type) ==
    LET w == OnceHandler(nextId, type, "resolve") IN
    /\ MayCall
    /\ all' = On(all, type, w, nextId)
    /\ onceRuns' = [c \in DOMAIN onceRuns \cup {w} |-> IF c = w THEN 0 ELSE onceRuns[c]]
    /\ promises' = [i \in DOMAIN promises \cup {nextId} |->
                       IF i = nextId
                       THEN [type |-> type, state |-> "pending", value |-> Undefined,
                             first |-> Undefined]
                       ELSE promises[i]]
    /\ nextId' = nextId + 1
    /\ nops' = nops + 1
    /\ lastOp' = Op("waitFor", type, Omitted, Undefined, nextId, FALSE)
    /\ lastEmit' = NoEmit
    /\ UNCHANGED <<stack, removers>>

\* off(type, handler), lines 123-132, with a handler.
OffCall(type, h) ==
    /\ MayCall
    /\ all' = Off(all, type, h)
    /\ nops' = nops + 1
    /\ lastOp' = Op("off", type, h, Undefined, 0, FALSE)
    /\ lastEmit' = NoEmit
    /\ UNCHANGED <<stack, removers, nextId, onceRuns, promises>>

\* off(type), lines 123-132, without a handler.
OffAllCall(type) ==
    /\ MayCall
    /\ all' = Off(all, type, Omitted)
    /\ nops' = nops + 1
    /\ lastOp' = Op("offAll", type, Omitted, Undefined, 0, FALSE)
    /\ lastEmit' = NoEmit
    /\ UNCHANGED <<stack, removers, nextId, onceRuns, promises>>

\* The function returned by on / once, line 86: () => instance.off(type, handler).
RemoverCall(r) ==
    /\ MayCall
    /\ r \in removers
    /\ all' = Off(all, r.type, r.h)
    /\ removers' = (removers \ {r}) \cup {[r EXCEPT !.used = TRUE]}
    /\ nops' = nops + 1
    /\ lastOp' = Op("remover", r.type, r.h, Undefined, r.id, r.used)
    /\ lastEmit' = NoEmit
    /\ UNCHANGED <<stack, nextId, onceRuns, promises>>

\* The ids of the once closures that have begun to run at least once.
Started == {c.id : c \in {d \in DOMAIN onceRuns : onceRuns[d] > 0}}

\* emit(type, evt), lines 144-148: read the list of type and copy it.
\* A frame holds what the call works with (type, evt, phase, snap, idx,
\* running) and what it is to be compared with: the lists of type and of the
\* wildcard key when emit was called (atCall, wildAtCall), the wildcard list
\* when the type list was done (wildThen), the calls made so far, the once
\* closures that had begun to run before the call (started), and whether the
\* call follows an off(type) that found handlers (afterOffAll), the registry
\* when emit was called (regAtCall), and the once closures whose remover had
\* been called before the call (cancelled).
EmitCall(type, evt) ==
    /\ MayCall
    /\ Len(stack) < MaxDepth
    /\ stack' = Append(stack,
          [type |-> type, evt |-> evt, phase |-> "type",
           snap |-> Slice(Get(all, type)), idx |-> 0, running |-> FALSE,
           atCall |-> Get(all, type), wildAtCall |-> Get(all, WILDCARD),
           wildThen |-> <<>>,
           calls |-> <<>>, started |-> Started,
           afterOffAll |-> lastOp.op = "offAll" /\ lastOp.type = type
                           /\ lastOp.pre # <<>>,
           regAtCall |-> all,
           cancelled |-> {r.id : r \in {q \in removers : q.used /\ q.h.k = "once"}}])
    /\ nops' = nops + 1
    /\ lastOp' = Op("emit", type, Omitted, evt, 0, FALSE)
    /\ lastEmit' = NoEmit
    /\ promises' = [i \in DOMAIN promises |->
                       IF promises[i].type = type /\ promises[i].first = Undefined
                       THEN [promises[i] EXCEPT !.first = evt]
                       ELSE promises[i]]
    /\ UNCHANGED <<all, removers, nextId, onceRuns>>

\* Mutant of IterList: .map() walks the list of the registry, not a copy.
IterListLive(f, reg) ==
    IF f.phase = "type" THEN Get(reg, f.type) ELSE Get(reg, WILDCARD)

\* The array the running .map() walks: the copy made by .slice(), lines
\* 147-149 and 156-158.
IterList(f, reg) == f.snap

ReplaceTop(f) == [stack EXCEPT ![Len(stack)] = f]

\* One turn of .map(), lines 149-151 and 158-160: the next handler of the
\* copy is called.  A once closure first removes itself (line 98) and then
\* calls its handler with the arguments it got (line 99).  The handler of a
\* waitFor closure resolves the promise with its first argument and returns
\* (line 112); any other handler is user code, which runs until it returns
\* or throws.
Invoke ==
    /\ stack # <<>>
    /\ ~Top.running
    /\ Top.idx < Len(IterList(Top, all))
    /\ LET f == Top
           e == IterList(f, all)[f.idx + 1]
           args == IF f.phase = "type" THEN TypeArgs(f.type, f.evt)
                   ELSE WildArgs(f.type, f.evt)
           call == [phase |-> f.phase, entry |-> e, args |-> args]
       IN /\ stack' = ReplaceTop([f EXCEPT !.idx = @ + 1,
                                           !.running = ~IsResolver(e.fn),
                                           !.calls = Append(@, call)])
          /\ IF e.fn.k = "once"
             THEN /\ all' = OnceRemove(all, e.fn)
                  /\ onceRuns' = [onceRuns EXCEPT ![e.fn] = @ + 1]
             ELSE UNCHANGED <<all, onceRuns>>
          /\ promises' = IF IsResolver(e.fn)
                         THEN [promises EXCEPT ![e.fn.id] = Resolve(@, args[1])]
                         ELSE promises
    /\ lastOp' = Step("invoke")
    /\ lastEmit' = NoEmit
    /\ UNCHANGED <<removers, nextId, nops>>

\* The running handler returns; .map() goes on.
HandlerReturn ==
    /\ stack # <<>>
    /\ Top.running
    /\ stack' = ReplaceTop([Top EXCEPT !.running = FALSE])
    /\ lastOp' = Step("return")
    /\ lastEmit' = NoEmit
    /\ UNCHANGED <<all, removers, nextId, nops, onceRuns, promises>>

\* Mutant of Unwind: the emit whose handler threw swallows the error and goes
\* on with the next handler of its copy.
UnwindSwallowed(stk, n) ==
    Append(SubSeq(stk, 1, Len(stk) - 1), [stk[Len(stk)] EXCEPT !.running = FALSE])

\* What an error that leaves the n innermost emits leaves of the call stack.
\* Nothing in emit catches (lines 144-162): an emit whose handler lets an
\* error out is left with it, and the emits below stay as they are.
Unwind(stk, n) == SubSeq(stk, 1, Len(stk) - n)

\* The emits that an error leaving the n innermost emits has ended.
Thrown(stk, n) == SubSeq(stk, Len(stk) - n + 1, Len(stk))

\* The running handler throws.  The error leaves the emit that called it and
\* every emit around that one up to the first whose handler, being user code,
\* has the nested emit in a try/catch of its own; that handler goes on
\* running.  If no handler catches, the error reaches the outermost caller.
HandlerThrow ==
    /\ stack # <<>>
    /\ Top.running
    /\ \E n \in 1..Len(stack) :
          /\ stack' = Unwind(stack, n)
          /\ lastEmit' = [status |-> "thrown", frames |-> Thrown(stack, n)]
    /\ lastOp' = Step("throw")
    /\ UNCHANGED <<all, removers, nextId, nops, onceRuns, promises>>

\* Mutant of EmitWildcard: the wildcard list of the time emit was called is
\* the one that is walked.
EmitWildcardAsAtCall ==
    /\ stack # <<>>
    /\ ~Top.running
    /\ Top.phase = "type"
    /\ Top.idx >= Len(IterList(Top, all))
    /\ stack' = ReplaceTop([Top EXCEPT !.phase = "wild", !.idx = 0,
                                       !.snap = Slice(Top.wildAtCall),
                                       !.wildThen = Get(all, WILDCARD)])
    /\ lastOp' = Step("wildcard")
    /\ lastEmit' = NoEmit
    /\ UNCHANGED <<all, removers, nextId, nops, onceRuns, promises>>

\* Lines 154-157: the type list is done; read the wildcard list and copy it.
EmitWildcard ==
    /\ stack # <<>>
    /\ ~Top.running
    /\ Top.phase = "type"
    /\ Top.idx >= Len(IterList(Top, all))
    /\ stack' = ReplaceTop([Top EXCEPT !.phase = "wild", !.idx = 0,
                                       !.snap = Slice(Get(all, WILDCARD)),
                                       !.wildThen = Get(all, WILDCARD)])
    /\ lastOp' = Step("wildcard")
    /\ lastEmit' = NoEmit
    /\ UNCHANGED <<all, removers, nextId, nops, onceRuns, promises>>

\* Mutant of EmitReturn: emit returns to its caller whether or not the
\* handlers of its copies have all been called.
EmitReturnEarly ==
    /\ stack # <<>>
    /\ ~Top.running
    /\ stack' = SubSeq(stack, 1, Len(stack) - 1)
    /\ lastEmit' = [status |-> "returned", frames |-> <<Top>>]
    /\ lastOp' = Step("emitReturn")
    /\ UNCHANGED <<all, removers, nextId, nops, onceRuns, promises>>

\* Line 162: the wildcard list is done; emit returns to its caller.
EmitReturn ==
    /\ stack # <<>>
    /\ ~Top.running
    /\ Top.phase = "wild"
    /\ Top.idx >= Len(IterList(Top, all))
    /\ stack' = SubSeq(stack, 1, Len(stack) - 1)
    /\ lastEmit' = [status |-> "returned", frames |-> <<Top>>]
    /\ lastOp' = Step("emitReturn")
    /\ UNCHANGED <<all, removers, nextId, nops, onceRuns, promises>>

Next ==
    \/ \E type \in Keys, h \in UserHandlers : OnCall(type, h)
    \/ \E type \in OnceKeys, h \in OnceHandlers : OnceCall(type, h)
    \/ \E type \in WaitKeys : WaitForCall(type)
    \/ \E type \in Keys, h \in UserHandlers : OffCall(type, h)
    \/ \E type \in Keys : OffAllCall(type)
    \/ \E r \in removers : RemoverCall(r)
    \/ \E type \in Keys, evt \in {Payload(nops + 1)} : EmitCall(type, evt)
    \/ Invoke
    \/ HandlerReturn
    \/ HandlerThrow
    \/ EmitWildcard
    \/ EmitReturn

Spec == Init /\ [][Next]_vars

\* ------------------------------------------------------------ properties
\* The emit calls in progress, and those the step just taken has ended.
InFlight == {stack[i] : i \in 1..Len(stack)}
Ended == {lastEmit.frames[i] : i \in 1..Len(lastEmit.frames)}
Returned == IF lastEmit.status = "returned" THEN Ended ELSE {}
Emissions == InFlight \cup Ended

IsTypeCall(c) == c.phase = "type"
IsWildCall(c) == c.phase = "wild"
TypeCalls(f) == SelectSeq(f.calls, IsTypeCall)
WildCalls(f) == SelectSeq(f.calls, IsWildCall)
IsPrefix(s, t) == Len(s) <= Len(t) /\ \A i \in 1..Len(s) : s[i] = t[i]
Count(list, h) == Cardinality({i \in 1..Len(list) : list[i].fn = h})

\* C1: an emit(type, p) that returns has called, as handlers of type, each
\* entry of the list held under type when emit was called exactly once, in
\* list order, each with the payload p alone.
C1_EachOnceInOrder ==
    \A f \in Returned :
        TypeCalls(f) = [i \in 1..Len(f.atCall) |->
                           [phase |-> "type", entry |-> f.atCall[i],
                            args |-> <<f.evt, Undefined>>]]

\* An emit has returned after calling a list of three, one entry seeded and
\* one pushed by on.
C1_Witness ==
    \E f \in Returned :
        /\ Len(f.atCall) >= 3
        /\ Len(TypeCalls(f)) >= 3
        /\ \E i, j \in 1..Len(f.atCall) : f.atCall[i].reg = 0 /\ f.atCall[j].reg > 0

\* C2: an emit(t, p) with t not the wildcard key that returns has called every
\* handler of the wildcard list (as it stands when the handlers of t have
\* returned) as w(t, p), in list order; and in no emission is a wildcard
\* handler called before every handler of the copy of t's list has been called
\* and has returned.
C2_WildcardAfterType ==
    /\ \A f \in Returned :
          f.type # WILDCARD =>
              WildCalls(f) = [i \in 1..Len(f.wildThen) |->
                                 [phase |-> "wild", entry |-> f.wildThen[i],
                                  args |-> <<f.type, f.evt>>]]
    /\ \A f \in Emissions :
          /\ f.calls = TypeCalls(f) \o WildCalls(f)
          /\ WildCalls(f) # <<>> => Len(TypeCalls(f)) = Len(f.atCall)

\* An emit of an ordinary key has returned after calling a handler of the key
\* and then a wildcard handler.
C2_Witness ==
    \E f \in Returned :
        /\ f.type # WILDCARD
        /\ TypeCalls(f) # <<>>
        /\ WildCalls(f) # <<>>

\* C3: the handlers of t that one emit(t, p) calls are the entries of t's list
\* as it stood when emit was called, in that order, whatever the handlers do
\* to the registry meanwhile: at every moment the calls made are the first
\* entries of that list, and once the list of t is done they are all of it.
C3_SnapshotAtCall ==
    \A f \in Emissions :
        /\ IsPrefix([i \in 1..Len(TypeCalls(f)) |-> TypeCalls(f)[i].entry], f.atCall)
        /\ (f.phase = "wild" \/ f \in Returned) => Len(TypeCalls(f)) = Len(f.atCall)

\* An emit has returned whose handlers removed a handler of the type that had
\* not yet been called and pushed a new one: both lists differ from the list
\* at the call, and the calls made are that list.
C3_Witness ==
    \E f \in Returned :
        /\ \E i \in 2..Len(f.atCall) :
              /\ f.atCall[i].fn.k = "fn"
              /\ \A j \in 1..Len(Get(all, f.type)) : Get(all, f.type)[j] # f.atCall[i]
        /\ \E j \in 1..Len(Get(all, f.type)) :
              \A i \in 1..Len(f.atCall) : f.atCall[i] # Get(all, f.type)[j]
        /\ Len(TypeCalls(f)) = Len(f.atCall)

\* C4: the handler passed to one once(type, h) call, type an ordinary key, is
\* called at most once through that registration, over all emit calls.
C4_OnceAtMostOnce ==
    \A c \in DOMAIN onceRuns : c.type # WILDCARD => onceRuns[c] <= 1

\* C5: an emission whose copy of the list is taken after a once closure has
\* begun to run does not call that closure (and so not its handler through
\* it): no call of any emission, of the type list or of the wildcard list, is
\* to a closure that had begun to run before the emit call.
C5_OnceGoneOnceStarted ==
    \A f \in Emissions :
        \A i \in 1..Len(f.calls) :
            f.calls[i].entry.fn.k = "once" => f.calls[i].entry.fn.id \notin f.started

\* An emit of the type made from inside the handler of a once closure has
\* returned, while the emit that called the closure is still in progress.
C5_Witness ==
    /\ stack # <<>>
    /\ \E f \in Returned :
          /\ Top.running
          /\ Top.calls # <<>>
          /\ LET w == Top.calls[Len(Top.calls)].entry.fn IN
                /\ w.k = "once"
                /\ w.type = f.type
                /\ w.id \in f.started

\* C6: the first call of the remover that on(type, h) returned removes the
\* entry that this on call pushed and no other, and every later call of the
\* same remover leaves the list as it is.
C6_RemoverExact ==
    (lastOp.op = "remover" /\ lastOp.h.k = "fn") =>
        LET IsOther(e) == e.reg # lastOp.rid IN
        Fns(Get(all, lastOp.type)) =
            IF lastOp.used THEN Fns(lastOp.pre)
            ELSE Fns(SelectSeq(lastOp.pre, IsOther))

\* C7: off(type, h) with h in the list removes the occurrence of h with the
\* lowest index and no other entry, keeping the order of the rest; the number
\* of occurrences of h goes down by exactly one.
C7_OffFirstOccurrence ==
    (lastOp.op = "off" /\ Count(lastOp.pre, lastOp.h) > 0) =>
        LET pre == lastOp.pre
            now == Get(all, lastOp.type)
            first == CHOOSE i \in 1..Len(pre) :
                        /\ pre[i].fn = lastOp.h
                        /\ \A j \in 1..(i - 1) : pre[j].fn # lastOp.h
        IN /\ Len(now) = Len(pre) - 1
           /\ \A j \in 1..(first - 1) : now[j] = pre[j]
           /\ \A j \in (first + 1)..Len(pre) : now[j - 1] = pre[j]
           /\ Count(now, lastOp.h) = Count(pre, lastOp.h) - 1

\* off(type, h) has acted on a list that held h twice with another handler
\* between.
C7_Witness ==
    /\ lastOp.op = "off"
    /\ \E i, j, l \in 1..Len(lastOp.pre) :
          /\ i < j /\ j < l
          /\ lastOp.pre[i].fn = lastOp.h
          /\ lastOp.pre[j].fn # lastOp.h
          /\ lastOp.pre[l].fn = lastOp.h

\* C8: right after off(type) on a type that has handlers the list of type is
\* empty; an emit(type, p) that follows calls no handler of type, and calls
\* the wildcard handlers in order with (type, p): all of them once it returns.
C8_OffAllThenEmit ==
    /\ (lastOp.op = "offAll" /\ lastOp.pre # <<>>) =>
          (Has(all, lastOp.type) /\ all[lastOp.type] = <<>>)
    /\ \A f \in Emissions :
          f.afterOffAll =>
              LET want == [i \in 1..Len(f.wildAtCall) |->
                              [phase |-> "wild", entry |-> f.wildAtCall[i],
                               args |-> <<f.type, f.evt>>]]
              IN /\ TypeCalls(f) = <<>>
                 /\ IsPrefix(WildCalls(f), want)
                 /\ f \in Returned => WildCalls(f) = want

\* An emit that followed off(type) has returned, with wildcard handlers
\* registered.
C8_Witness ==
    \E f \in Returned :
        /\ f.afterOffAll
        /\ f.type # WILDCARD
        /\ f.wildAtCall # <<>>
        /\ WildCalls(f) # <<>>

\* C9 as claimed: after off(type) the registry has an entry for type with an
\* empty list, whether or not it had one before.
C9_OffAllAlwaysCreates ==
    lastOp.op = "offAll" => (Has(all, lastOp.type) /\ all[lastOp.type] = <<>>)

\* C9 amended: after off(type) the entry of type is an empty list if the
\* registry had an entry for type, and the registry still has no entry for
\* type if it had none.
C9_OffAllOnlyIfPresent ==
    lastOp.op = "offAll" =>
        IF lastOp.had
        THEN Has(all, lastOp.type) /\ all[lastOp.type] = <<>>
        ELSE ~Has(all, lastOp.type)

\* off(type) has been called for a type without an entry.
C9_Witness ==
    /\ lastOp.op = "offAll"
    /\ ~lastOp.had
    /\ DOMAIN all # {}

\* What C10 says of each emit that a throw has ended: it was waiting for the
\* handler it had called last, has called only the first entries of its copy
\* and none after that one, and has called no wildcard handler if it was
\* still in its type list.
Aborted(f) ==
    /\ f.running
    /\ IsPrefix([i \in 1..Len(TypeCalls(f)) |-> TypeCalls(f)[i].entry], f.atCall)
    /\ f.phase = "type" => WildCalls(f) = <<>>
    /\ f.phase = "wild" =>
          IsPrefix([i \in 1..Len(WildCalls(f)) |-> WildCalls(f)[i].entry], f.wildThen)

\* C10 as claimed: when a handler throws, every emit in progress ends with it
\* (the error reaches the outermost caller), each of them aborted as above.
C10_ThrowAborts ==
    lastOp.op = "throw" =>
        /\ stack = <<>>
        /\ lastEmit.status = "thrown"
        /\ lastEmit.frames # <<>>
        /\ \A f \in Ended : Aborted(f)

\* C10 amended: when a handler throws, the emit that called it ends in an
\* error, aborted as above, and so does every enclosing emit up to the first
\* whose handler catches the error; the emits that stay in progress are
\* unchanged, none of them is among those ended, and the innermost of them is
\* still inside the handler that called the nested emit: emit itself never
\* goes on to a next handler after an error reached it.
C10_ThrowAbortsUncaught ==
    lastOp.op = "throw" =>
        /\ lastEmit.status = "thrown"
        /\ lastEmit.frames # <<>>
        /\ \A f \in Ended : Aborted(f) /\ f \notin InFlight
        /\ \A i \in 1..Len(stack) : stack[i].running

\* A handler has thrown inside a nested emit and the handler of the outer
\* emit has caught the error: the outer emit is still in progress, in its
\* type list with a handler left to call and wildcard handlers registered.
C10_Witness ==
    /\ lastOp.op = "throw"
    /\ lastEmit.frames # <<>>
    /\ stack # <<>>
    /\ Top.phase = "type"
    /\ Len(TypeCalls(Top)) < Len(Top.atCall)
    /\ Get(all, WILDCARD) # <<>>

\* C11: a promise returned by waitFor(type), type an ordinary key, is pending
\* as long as no emit(type, ...) has been called after the waitFor call, and
\* once resolved it holds the payload of the first emit(type, p) called after
\* the waitFor call.
C11_WaitForNextEmit ==
    \A i \in DOMAIN promises :
        LET p == promises[i] IN
        p.type # WILDCARD =>
            /\ p.first = Undefined => p.state = "pending"
            /\ p.state = "resolved" => p.value = p.first

EntriesOf(calls) == [i \in 1..Len(calls) |-> calls[i].entry]
InList(list, e) == \E i \in 1..Len(list) : list[i] = e
IsOnce(e) == e.fn.k = "once"
\* The call of a handler that the step just taken has made (after Invoke).
LastCall == Top.calls[Len(Top.calls)]

\* C12 as claimed: the wildcard handlers an emit(t, p) calls are those of the
\* wildcard list when emit was called.
C12_WildcardAsAtCall ==
    \A f \in Emissions :
        /\ IsPrefix(EntriesOf(WildCalls(f)), f.wildAtCall)
        /\ f \in Returned => EntriesOf(WildCalls(f)) = f.wildAtCall

\* C12 amended: the wildcard handlers an emit(t, p) calls are those of the
\* wildcard list when the handlers of t have all returned, whatever the
\* wildcard handlers do to the registry after that: each wildcard handler
\* called is, when it is called, the next entry of that list, and an emit that
\* returns has called all of it.
C12_WildcardAsAfterTypePass ==
    /\ (lastOp.op = "invoke" /\ LastCall.phase = "wild") =>
          LET n == Len(WildCalls(Top)) IN
          /\ n <= Len(Top.wildThen)
          /\ LastCall.entry = Top.wildThen[n]
    /\ \A f \in Returned : EntriesOf(WildCalls(f)) = f.wildThen

\* An emit has returned that called a wildcard handler which a handler of the
\* type had registered during the emission, and did not call one that was in
\* the wildcard list when emit was called.
C12_Witness ==
    \E f \in Returned :
        /\ f.type # WILDCARD
        /\ \E i \in 1..Len(WildCalls(f)) : ~InList(f.wildAtCall, WildCalls(f)[i].entry)
        /\ \E i \in 1..Len(f.wildAtCall) : ~InList(EntriesOf(WildCalls(f)), f.wildAtCall[i])

\* C13: on(type, h) leaves under type the list it found (the empty list if
\* there was no entry) with h appended at the end, one entry longer, also when
\* h was in the list already.
C13_OnAppends ==
    lastOp.op = "on" =>
        /\ Has(all, lastOp.type)
        /\ all[lastOp.type] = Append(lastOp.pre, Entry(lastOp.h, lastOp.rid))
        /\ Len(all[lastOp.type]) = Len(lastOp.pre) + 1

\* on(type, h) has been called with h in the list already.
C13_Witness ==
    /\ lastOp.op = "on"
    /\ Count(lastOp.pre, lastOp.h) > 0
    /\ Count(Get(all, lastOp.type), lastOp.h) > 1

\* C14: every handler an emit(t, p) calls from a type list was held under
\* exactly the key t when emit was called, and every handler it calls from the
\* wildcard list was held under the wildcard key when that list was read; so a
\* handler held only under another key is not called.  Stated of each call as
\* it is made.
C14_OnlyOwnKey ==
    lastOp.op = "invoke" =>
        IF LastCall.phase = "type"
        THEN /\ Top.type \in DOMAIN Top.regAtCall
             /\ InList(Top.regAtCall[Top.type], LastCall.entry)
        ELSE InList(Top.wildThen, LastCall.entry)

\* An emit of an ordinary key with handlers has returned while another
\* ordinary key held a handler that neither the emitted key nor the wildcard
\* key held; that handler was not called.
C14_Witness ==
    \E f \in Returned :
        /\ f.type # WILDCARD
        /\ TypeCalls(f) # <<>>
        /\ \E k \in DOMAIN f.regAtCall \ {f.type, WILDCARD} :
              \E i \in 1..Len(f.regAtCall[k]) :
                  \A j \in 1..Len(f.calls) : f.calls[j].entry.fn # f.regAtCall[k][i].fn

\* An emit that finds no list of its type and no wildcard handler.
FindsNothing(f) ==
    /\ f.type \notin DOMAIN f.regAtCall
    /\ WILDCARD \in DOMAIN f.regAtCall => f.regAtCall[WILDCARD] = <<>>

\* C15: off(type, h) with h not in the list of type (or no list) leaves the
\* registry as it was; emit(type, p) with no entry for type and no wildcard
\* handler calls no handler, does not end in an error, and leaves the registry
\* as it was.
C15_NoOps ==
    /\ (lastOp.op = "off" /\ Count(lastOp.pre, lastOp.h) = 0) => all = lastOp.reg
    /\ \A f \in Emissions :
          FindsNothing(f) =>
              /\ f.calls = <<>>
              /\ lastEmit.status # "thrown"
              /\ all = f.regAtCall

\* off(type, h) has been called on a list that holds other handlers but not h.
C15_Witness ==
    /\ lastOp.op = "off"
    /\ lastOp.pre # <<>>
    /\ Count(lastOp.pre, lastOp.h) = 0
    /\ all = lastOp.reg

\* C16: while an emit called by a handler is in progress, the emit that
\* called that handler waits in it (it calls no further handler); and when the
\* nested emit returns it has called every handler of its copy of the type
\* list and then every handler of its copy of the wildcard list.
C16_NestedRunsInline ==
    /\ \A i \in 1..(Len(stack) - 1) : stack[i].running
    /\ \A f \in Returned :
          /\ stack # <<>> => Top.running
          /\ Len(TypeCalls(f)) = Len(f.atCall)
          /\ Len(WildCalls(f)) = Len(f.wildThen)
          /\ f.calls = TypeCalls(f) \o WildCalls(f)

\* An emit called by a handler has returned after calling a type handler and a
\* wildcard handler, while the outer emit has a handler of its copy left.
C16_Witness ==
    /\ stack # <<>>
    /\ \E f \in Returned :
          /\ TypeCalls(f) # <<>>
          /\ WildCalls(f) # <<>>
          /\ Top.phase = "type"
          /\ Top.idx < Len(Top.snap)

RegistryCalls == {"on", "once", "waitFor", "off", "offAll", "remover"}
EmitSteps == {"emit", "wildcard", "emitReturn", "return", "throw"}

\* C17: on, once, waitFor, off(t, h), off(t) and a remover for t leave the list of
\* every other key, and which other keys have one, as they were; the steps of
\* emit itself (the call, reading the wildcard list, the return, and the
\* return or throw of a handler) leave the whole registry as it was.
C17_OtherKeysUntouched ==
    /\ lastOp.op \in RegistryCalls =>
          \A k \in (DOMAIN all \cup DOMAIN lastOp.reg) \ {lastOp.type} :
              /\ k \in DOMAIN all
              /\ k \in DOMAIN lastOp.reg
              /\ all[k] = lastOp.reg[k]
    /\ lastOp.op \in EmitSteps => all = lastOp.reg

\* off(type) has emptied a list while another key holds handlers.
C17_Witness ==
    /\ lastOp.op = "offAll"
    /\ lastOp.pre # <<>>
    /\ \E k \in DOMAIN all \ {lastOp.type} : all[k] # <<>>

\* C18: no step takes a key out of the registry; off(type, h) or a remover
\* that removes the last handler of a key leaves an empty list under it.
C18_KeysStay ==
    /\ DOMAIN lastOp.reg \subseteq DOMAIN all
    /\ (lastOp.op \in {"off", "remover"} /\ Len(lastOp.pre) = 1
            /\ Count(lastOp.pre, lastOp.h) = 1) =>
          (Has(all, lastOp.type) /\ all[lastOp.type] = <<>>)

\* off(type, h) has removed the only handler of a key.
C18_Witness ==
    /\ lastOp.op = "off"
    /\ Len(lastOp.pre) = 1
    /\ Has(all, lastOp.type)
    /\ all[lastOp.type] = <<>>

\* C19: off(type, h) with the handler h that was passed to once leaves every
\* once closure in the list (it removes at most a directly registered h), and
\* an emit that returns has called every once closure its list held; no emit
\* called after the remover that once returned calls the closure.
C19_OnceOnlyByRemover ==
    /\ lastOp.op = "off" =>
          /\ SelectSeq(Get(all, lastOp.type), IsOnce) = SelectSeq(lastOp.pre, IsOnce)
          /\ Count(lastOp.pre, lastOp.h) = 0 => Get(all, lastOp.type) = lastOp.pre
    /\ \A f \in Returned :
          \A i \in 1..Len(f.atCall) :
              IsOnce(f.atCall[i]) => InList(EntriesOf(TypeCalls(f)), f.atCall[i])
    /\ (lastOp.op = "invoke" /\ IsOnce(LastCall.entry)) =>
          LastCall.entry.fn.id \notin Top.cancelled

\* off(type, h) has been called on a list that holds a once closure of h: the
\* closure is still there.
C19_Witness ==
    /\ lastOp.op = "off"
    /\ \E i \in 1..Len(Get(all, lastOp.type)) :
          /\ IsOnce(all[lastOp.type][i])
          /\ all[lastOp.type][i].fn.name = lastOp.h.name

\* C20: a once closure that has begun to run is in no list of the registry;
\* in particular when its handler throws, after the failed emit the closure is
\* absent from the list of its type; and an emit calls from its type list only
\* once closures the registry held when it was called, so an emit called
\* later does not call the closure again.
C20_OnceGoneAfterThrow ==
    /\ \A c \in DOMAIN onceRuns :
          onceRuns[c] > 0 => \A k \in DOMAIN all : Count(all[k], c) = 0
    /\ lastOp.op = "throw" =>
          \A f \in Ended :
              LET e == f.calls[Len(f.calls)].entry IN
              IsOnce(e) => ~InList(Get(all, e.fn.type), e)
    /\ (lastOp.op = "invoke" /\ LastCall.phase = "type" /\ IsOnce(LastCall.entry)) =>
          InList(Get(Top.regAtCall, Top.type), LastCall.entry)

\* The handler of a once closure has thrown on its first call.
C20_Witness ==
    /\ lastOp.op = "throw"
    /\ LET f == lastEmit.frames[Len(lastEmit.frames)]
           e == f.calls[Len(f.calls)].entry
       IN /\ IsOnce(e)
          /\ onceRuns[e.fn] = 1
          /\ Has(all, e.fn.type)

====
